---- MODULE Spec2Model ----
(***************************************************************************)
(* Risk scoring engine of zra-digital-fortress: the rule-based analyzer    *)
(* (FraudDetector), the statistical estimator and ensemble combiner        *)
(* (AdvancedFraudDetector) and the cached ensemble endpoint                *)
(* (OptimizedFraudDetectionAPI).                                           *)
(*                                                                         *)
(* Number representation.  Python floats are modelled in exact fixed point:*)
(*   - scores and probabilities are integers in units of 1/100000          *)
(*     (1.0 = 100000); inputs lie on the 1/10000 grid so that              *)
(*     0.7*p + 0.3*r is an integer;                                        *)
(*   - a per-check risk is an integer in tenths (0.8 = 8);                 *)
(*   - confidences are integers in hundredths (0.7 = 70);                  *)
(*   - quotients (deduction ratio, relative deviations) are exact          *)
(*     rationals [n, d] with d > 0.                                        *)
(* JSON values: a numeric field is a tagged record, so that a missing key  *)
(* and a null value are distinguishable from a number.                     *)
(***************************************************************************)
EXTENDS Integers, Sequences, FiniteSets, TLC

VARIABLES
    ml_model,   \* the trained classifier the process holds (advanced_fraud_detector)
    cache,      \* django cache: key -> stored analysis result
    op,         \* the operation called last
    args,       \* its arguments
    ret,        \* its return value
    raised,     \* the exception it raised to its caller ("" if none)
    frame,      \* locals of that call that the properties read
    boot,       \* construction of the estimator: position, objects held, files
    db,         \* filing_id of every TaxFilingAnalysis row
    memo,       \* an earlier call kept for comparison (auxiliary)
    calls,      \* scoring calls in progress, one per request thread
    ledger,     \* BlockchainTransaction rows, oldest first
    chat        \* a chatbot conversation, its ChatMessage rows, requests in progress

vars == <<ml_model, cache, op, args, ret, raised, frame, boot, db, memo, calls,
          ledger, chat>>

-----------------------------------------------------------------------------
(* JSON / Python values *)

Num(n) == [t |-> "int", v |-> n]
NoneVal == [t |-> "None", v |-> 0]
Missing == [t |-> "missing", v |-> 0]
IsNum(x) == x.t = "int"

\* dict.get(key, default) on a numeric field
Get(x, default) == IF x.t = "missing" THEN Num(default) ELSE x

SectorNone == "<None>"
SectorMissing == "<missing>"

\* dict.get('business_sector', 'services')
GetSector(filing_data) ==
    IF filing_data.business_sector = SectorMissing THEN "services"
    ELSE filing_data.business_sector

\* str.lower() on one character
LowerChar(c) ==
    CASE c = "A" -> "a" [] c = "D" -> "d" [] c = "E" -> "e" [] c = "L" -> "l"
      [] c = "R" -> "r" [] c = "Y" -> "y" [] c = "Q" -> "q"
      [] OTHER -> c

\* str.lower() on a string held as a sequence of characters
Lower(s) == [i \in 1..Len(s) |-> LowerChar(s[i])]

\* str.lower() on a sector name
LowerSector(s) == IF s = "RETAIL" THEN "retail" ELSE s

\* Python's `pat in s` for strings held as sequences of characters
Contains(s, pat) ==
    \E i \in 0..(Len(s) - Len(pat)) :
        \A j \in 1..Len(pat) : s[i + j] = pat[j]

\* a / b : Python true division, exact; d = 0 stands for ZeroDivisionError
TrueDiv(a, b) == [n |-> a, d |-> b]
Zero == [n |-> 0, d |-> 1]
Abs(x) == IF x < 0 THEN -x ELSE x
Max(a, b) == IF a >= b THEN a ELSE b
Min(a, b) == IF a <= b THEN a ELSE b

RECURSIVE SumSeq(_)
SumSeq(s) == IF s = <<>> THEN 0 ELSE Head(s) + SumSeq(Tail(s))

\* result of a try-body: either a value or the exception it raised
Ok(val) == [exc |-> "", val |-> val]
Raise(e) == [exc |-> e, val |-> [error |-> e]]

-----------------------------------------------------------------------------
(* FraudDetector (ai_engine/ml_models/fraud_detector.py) *)

\* deduction_ratio per sector, in hundredths
industry_averages ==
    [retail |-> 35, manufacturing |-> 28, services |-> 42,
     construction |-> 38, agriculture |-> 32]

\* mutant: income deviation weighs 0.35
risk_weights_heavy ==
    [income_deviation |-> 350, deduction_ratio |-> 250,
     historical_inconsistency |-> 200, round_numbers |-> 150,
     unusual_timing |-> 100]

\* weights in thousandths: risk (tenths) * weight * 10 is a score in 1/100000
risk_weights ==
    [income_deviation |-> 300, deduction_ratio |-> 250,
     historical_inconsistency |-> 200, round_numbers |-> 150,
     unusual_timing |-> 100]

NoRisk == [risk |-> 0, reason |-> ""]

\* self.industry_averages.get(business_sector, self.industry_averages['services'])
typical_ratio(business_sector) ==
    IF business_sector \in DOMAIN industry_averages
    THEN industry_averages[business_sector]
    ELSE industry_averages["services"]

\* typical ratios t (in hundredths) for which the double t/100 + 0.1 is below
\* the double nearest to (t + 10)/100: 0.35 + 0.1 is 0.44999999999999996, so
\* a ratio of exactly 0.45 compares greater.  0.28, 0.38 and 0.42 add to the
\* nearest double; 0.32 + 0.1 is 0.42000000000000004, above the double 0.42,
\* and no quotient of these magnitudes lies between.
SumRoundsDown == {35}

\* deduction_ratio > typical_ratio + 0.1 in double arithmetic
ExceedsMargin(deduction_ratio, typical) ==
    \/ 100 * deduction_ratio.n > (typical + 10) * deduction_ratio.d
    \/ /\ typical \in SumRoundsDown
       /\ 100 * deduction_ratio.n = (typical + 10) * deduction_ratio.d

\* mutant: the second threshold inclusive
FD_check_industry_deviation_inclusive(income, business_sector, history) ==
    IF income < 10000
    THEN [risk |-> 8, reason |-> "Income significantly below typical business levels"]
    ELSE IF income <= 25000
    THEN [risk |-> 4, reason |-> "Income below average for sector"]
    ELSE NoRisk

FD_check_industry_deviation(income, business_sector, history) ==
    IF income < 10000
    THEN [risk |-> 8, reason |-> "Income significantly below typical business levels"]
    ELSE IF income < 25000
    THEN [risk |-> 4, reason |-> "Income below average for sector"]
    ELSE NoRisk

\* mutant: the sector comparison's operands exchanged
FD_check_deduction_ratio_swapped(deduction_ratio, business_sector) ==
    LET typical == typical_ratio(business_sector) IN
    IF 10 * deduction_ratio.n > 7 * deduction_ratio.d
    THEN [risk |-> 9, reason |-> "Deductions represent most of income"]
    ELSE IF 10 * deduction_ratio.n > 5 * deduction_ratio.d
    THEN [risk |-> 6, reason |-> "High deduction ratio compared to industry average"]
    ELSE IF typical * deduction_ratio.d > 100 * deduction_ratio.n + 10 * deduction_ratio.d
    THEN [risk |-> 3, reason |-> "Above average deduction ratio for sector"]
    ELSE NoRisk

FD_check_deduction_ratio(deduction_ratio, business_sector) ==
    LET typical == typical_ratio(business_sector) IN
    IF 10 * deduction_ratio.n > 7 * deduction_ratio.d
    THEN [risk |-> 9, reason |-> "Deductions represent most of income"]
    ELSE IF 10 * deduction_ratio.n > 5 * deduction_ratio.d
    THEN [risk |-> 6, reason |-> "High deduction ratio compared to industry average"]
    ELSE IF ExceedsMargin(deduction_ratio, typical)
    THEN [risk |-> 3, reason |-> "Above average deduction ratio for sector"]
    ELSE NoRisk

\* [f.get('income', 0) for f in history if f.get('income', 0) > 0]
positive_incomes(history) ==
    LET idx == {i \in 1..Len(history) : Get(history[i].income, 0).v > 0}
        RECURSIVE pick(_)
        pick(i) == IF i > Len(history) THEN <<>>
                   ELSE IF i \in idx THEN <<Get(history[i].income, 0).v>> \o pick(i + 1)
                   ELSE pick(i + 1)
    IN pick(1)

\* `f.get('income', 0) > 0` raises TypeError on a null income
history_raises(history) ==
    \E i \in 1..Len(history) : ~IsNum(Get(history[i].income, 0))

\* abs(current_income - avg) / avg with avg = sum/len, as an exact rational
relative_deviation(current_income, incomes) ==
    TrueDiv(Abs(current_income * Len(incomes) - SumSeq(incomes)), SumSeq(incomes))

\* mutant: the 50% threshold inclusive
FD_check_historical_consistency_inclusive(current_filing, history) ==
    IF Len(history) = 0 THEN NoRisk
    ELSE
      LET current_income == Get(current_filing.income, 0).v
          historical_incomes == positive_incomes(history)
      IN IF historical_incomes = <<>> THEN NoRisk
         ELSE LET deviation == relative_deviation(current_income, historical_incomes) IN
              IF 10 * deviation.n >= 5 * deviation.d
              THEN [risk |-> 7, reason |-> "Income deviates from historical average"]
              ELSE IF 10 * deviation.n > 3 * deviation.d
              THEN [risk |-> 4, reason |-> "Significant income change from historical pattern"]
              ELSE NoRisk

FD_check_historical_consistency(current_filing, history) ==
    IF Len(history) = 0 THEN NoRisk
    ELSE
      LET current_income == Get(current_filing.income, 0).v
          historical_incomes == positive_incomes(history)
      IN IF historical_incomes = <<>> THEN NoRisk
         ELSE LET deviation == relative_deviation(current_income, historical_incomes) IN
              IF 10 * deviation.n > 5 * deviation.d
              THEN [risk |-> 7, reason |-> "Income deviates from historical average"]
              ELSE IF 10 * deviation.n > 3 * deviation.d
              THEN [risk |-> 4, reason |-> "Significant income change from historical pattern"]
              ELSE NoRisk

\* mutant: zero and negative values do not count as round
is_round_number_positive(num) == num > 0 /\ num % 1000 = 0

\* mutant: only multiples of 5000 count as round
is_round_number_5000(num) == num % 5000 = 0

is_round_number(num) == num % 1000 = 0 \/ num % 5000 = 0

B2I(b) == IF b THEN 1 ELSE 0

round_count(income, deductions, taxable_income) ==
    B2I(is_round_number(income)) + B2I(is_round_number(deductions))
      + B2I(is_round_number(taxable_income))

FD_check_round_numbers(income, deductions, taxable_income) ==
    LET rc == round_count(income, deductions, taxable_income) IN
    IF rc >= 2
    THEN [risk |-> 5, reason |-> "Multiple round numbers suggest estimated figures"]
    ELSE IF rc = 1
    THEN [risk |-> 2, reason |-> "Some figures appear rounded"]
    ELSE NoRisk

\* tax_period is a string held as a sequence of characters; '' and None are falsy
FD_check_filing_timing(tax_period) ==
    IF Len(tax_period) > 0
       /\ (Contains(Lower(tax_period), <<"e", "a", "r", "l", "y">>)
           \/ Contains(Lower(tax_period), <<"d", "e", "l", "a", "y">>))
    THEN [risk |-> 3, reason |-> "Unusual filing timing pattern"]
    ELSE NoRisk

\* mutant: lower bounds exclusive
FD_get_risk_level_exclusive(risk_score) ==
    IF risk_score > 70000 THEN "HIGH"
    ELSE IF risk_score > 40000 THEN "MEDIUM"
    ELSE "LOW"

\* score in units of 1/100000
FD_get_risk_level(risk_score) ==
    IF risk_score >= 70000 THEN "HIGH"
    ELSE IF risk_score >= 40000 THEN "MEDIUM"
    ELSE "LOW"

\* reasons whose text contains 'deduction' / 'income' (case-insensitive)
MentionsDeduction ==
    {"Deductions represent most of income",
     "High deduction ratio compared to industry average",
     "Above average deduction ratio for sector"}
MentionsIncome ==
    {"Deductions represent most of income",
     "Income significantly below typical business levels",
     "Income below average for sector",
     "Income deviates from historical average",
     "Significant income change from historical pattern"}

FD_generate_recommendations(risk_level, risk_factors) ==
    [base |-> CASE risk_level = "LOW" -> "Standard processing - no additional review required"
                [] risk_level = "MEDIUM" -> "Consider automated verification checks"
                [] risk_level = "HIGH" -> "Manual review recommended - request supporting documents"
                [] OTHER -> "Review required",
     verify_deductions |-> \E i \in 1..Len(risk_factors) : risk_factors[i] \in MentionsDeduction,
     cross_reference |-> \E i \in 1..Len(risk_factors) : risk_factors[i] \in MentionsIncome]

\* mutant: the finding is recorded whatever its risk
AddFactor_unguarded(acc, r, weight) ==
    [factors |-> Append(acc.factors, r.reason),
     score |-> acc.score + r.risk * weight * 10]

\* risk_factors.append(r['reason']) / risk_score += r['risk'] * weight, when r['risk'] > 0
AddFactor(acc, r, weight) ==
    IF r.risk > 0
    THEN [factors |-> Append(acc.factors, r.reason),
          score |-> acc.score + r.risk * weight * 10]
    ELSE acc

\* deductions / income if income > 0 else 0
FD_deduction_ratio(income, deductions) ==
    IF income > 0 THEN TrueDiv(deductions, income) ELSE Zero

\* the except-branch's return value of analyze
FD_degraded(e) ==
    [score |-> 0, level |-> "LOW", factors |-> <<"Analysis error">>,
     recommendation |-> [base |-> "Manual review required due to analysis error",
                         verify_deductions |-> FALSE, cross_reference |-> FALSE],
     confidence |-> 0,
     detailed_analysis |-> [error |-> e]]

\* mutant: confidence grows with the number of findings
FD_confidence_rising(risk_factors) == Min(100, 70 + Len(risk_factors) * 5)

\* max(0.7, 1.0 - (len(risk_factors) * 0.05)), in hundredths
FD_confidence(risk_factors) == Max(70, 100 - Len(risk_factors) * 5)

\* the try-body of analyze: its return value, or the exception it raises
FD_analyze_try(filing_data, taxpayer_history) ==
    LET income == Get(filing_data.income, 0)
        deductions == Get(filing_data.deductions, 0)
        sector_raw == GetSector(filing_data)
    IN
    IF sector_raw = SectorNone THEN Raise("AttributeError")      \* None.lower()
    ELSE IF ~IsNum(income) \/ ~IsNum(deductions) THEN Raise("TypeError")
    ELSE
      LET business_sector == LowerSector(sector_raw)
          tax_period == filing_data.tax_period
          deduction_ratio == FD_deduction_ratio(income.v, deductions.v)
          taxable_income == income.v - deductions.v
      IN
      IF deduction_ratio.d = 0 THEN Raise("ZeroDivisionError")
      ELSE IF Len(taxpayer_history) > 0 /\ history_raises(taxpayer_history)
      THEN Raise("TypeError")
      ELSE
        LET industry_risk == FD_check_industry_deviation(income.v, business_sector, taxpayer_history)
            deduction_risk == FD_check_deduction_ratio(deduction_ratio, business_sector)
            history_risk == IF Len(taxpayer_history) > 0
                            THEN FD_check_historical_consistency(filing_data, taxpayer_history)
                            ELSE NoRisk
            round_risk == FD_check_round_numbers(income.v, deductions.v, taxable_income)
            timing_risk == FD_check_filing_timing(tax_period)
            a0 == [factors |-> <<>>, score |-> 0]
            a1 == AddFactor(a0, industry_risk, risk_weights.income_deviation)
            a2 == AddFactor(a1, deduction_risk, risk_weights.deduction_ratio)
            a3 == AddFactor(a2, history_risk, risk_weights.historical_inconsistency)
            a4 == AddFactor(a3, round_risk, risk_weights.round_numbers)
            a5 == AddFactor(a4, timing_risk, risk_weights.unusual_timing)
            risk_factors == a5.factors
            risk_score == Min(a5.score, 100000)
            risk_level == FD_get_risk_level(risk_score)
        IN Ok([score |-> risk_score,
               level |-> risk_level,
               factors |-> risk_factors,
               recommendation |-> FD_generate_recommendations(risk_level, risk_factors),
               confidence |-> FD_confidence(risk_factors),
               detailed_analysis |->
                 [deduction_ratio |-> deduction_ratio,
                  taxable_income |-> taxable_income,
                  industry_comparison |-> industry_risk,
                  factors_breakdown |->
                    [income_deviation |-> industry_risk.risk,
                     deduction_ratio |-> deduction_risk.risk,
                     historical_inconsistency |-> history_risk.risk,
                     round_numbers |-> round_risk.risk,
                     unusual_timing |-> timing_risk.risk]]])

\* mutant: no exception handler
FD_analyze_result_reraise(r) == r

\* try: ... except Exception: around the whole body of analyze
FD_analyze_result(r) ==
    IF r.exc = "" THEN Ok(r.val) ELSE Ok(FD_degraded(r.exc))

FD_analyze(filing_data, taxpayer_history) ==
    FD_analyze_result(FD_analyze_try(filing_data, taxpayer_history))
-----------------------------------------------------------------------------
(* AdvancedFraudDetector (ai_engine/ml_models/advanced_fraud_detector.py) *)

feature_names ==
    <<"income", "deductions", "deduction_ratio", "income_industry_deviation",
      "historical_income_change", "round_number_count", "filing_timing_score">>

\* average income per sector of extract_features
AFD_industry_averages == [retail |-> 50000, services |-> 60000, manufacturing |-> 70000]

\* industry_averages.get(business_sector, 50000)
AFD_industry_avg(business_sector) ==
    IF business_sector \in DOMAIN AFD_industry_averages
    THEN AFD_industry_averages[business_sector]
    ELSE 50000

\* mutant: the guard admits income = 0
AFD_deduction_ratio_unguarded(income, deductions) ==
    IF income >= 0 THEN TrueDiv(deductions, income) ELSE Zero

\* deductions / income if income > 0 else 0
AFD_deduction_ratio(income, deductions) ==
    IF income > 0 THEN TrueDiv(deductions, income) ELSE Zero

\* (income - avg_historical) / avg_historical if avg_historical > 0 else 0
AFD_historical_income_change(income, taxpayer_history) ==
    IF Len(taxpayer_history) > 0
    THEN LET prev_incomes == positive_incomes(taxpayer_history) IN
         IF prev_incomes # <<>>
         THEN TrueDiv(income * Len(prev_incomes) - SumSeq(prev_incomes), SumSeq(prev_incomes))
         ELSE Zero
    ELSE Zero

\* np.log1p(x) is injective on x > -1: the value is held by its argument
Log1p(x) == [log1p_of |-> x]

\* extract_features has no exception handler: the value, or what it raises
AFD_extract_features(filing_data, taxpayer_history) ==
    LET income == Get(filing_data.income, 0)
        deductions == Get(filing_data.deductions, 0)
        business_sector == GetSector(filing_data)
    IN
    IF ~IsNum(income) \/ ~IsNum(deductions) THEN Raise("TypeError")
    ELSE
      LET deduction_ratio == AFD_deduction_ratio(income.v, deductions.v)
          industry_avg == AFD_industry_avg(business_sector)
      IN
      IF deduction_ratio.d = 0 THEN Raise("ZeroDivisionError")
      ELSE IF Len(taxpayer_history) > 0 /\ history_raises(taxpayer_history)
      THEN Raise("TypeError")
      ELSE Ok([income |-> Log1p(income.v),
               deductions |-> Log1p(deductions.v),
               deduction_ratio |-> deduction_ratio,
               income_industry_deviation |->
                   IF industry_avg > 0 THEN TrueDiv(income.v - industry_avg, industry_avg)
                   ELSE Zero,
               historical_income_change |->
                   AFD_historical_income_change(income.v, taxpayer_history),
               round_number_count |->
                   round_count(income.v, deductions.v, income.v - deductions.v),
               filing_timing_score |-> [n |-> 1, d |-> 10]])

(* The trained classifier and its scaler are sklearn objects whose parameters
   are not part of the repository.  The classifier is held as what scoring
   reads of it: a positive-class probability for each cell of a partition of
   feature space (the forest is piecewise constant in the features, and the
   scaler is an injective affine map), and its feature_importances_. *)
Leaves == {"high_deductions", "income_drop", "normal"}

Leaf(features) ==
    IF 2 * features.deduction_ratio.n > features.deduction_ratio.d THEN "high_deductions"
    ELSE IF features.historical_income_change.n < 0 THEN "income_drop"
    ELSE "normal"

\* self.ml_model.predict_proba(self.scaler.transform(features))[0][1], in 1/100000
predict_proba(model, features) == model.proba[Leaf(features)]

\* dict(zip(self.feature_names, self.ml_model.feature_importances_)), in hundredths
AFD_feature_importance(model) ==
    [i \in 1..Len(feature_names) |-> model.feature_importances_[i]]

\* mutant: a failed prediction counts as certain fraud
AFD_degraded_flagging(e) ==
    [fraud_probability |-> 100000, prediction |-> TRUE, feature_importance |-> <<>>,
     model_confidence |-> 0, error |-> e]

\* the except-branch's return value of predict
AFD_degraded(e) ==
    [fraud_probability |-> 0, prediction |-> FALSE, feature_importance |-> <<>>,
     model_confidence |-> 0, error |-> e]

\* the try-body of predict
AFD_predict_try(model, filing_data, taxpayer_history) ==
    LET f == AFD_extract_features(filing_data, taxpayer_history) IN
    IF f.exc # "" THEN Raise(f.exc)
    ELSE LET fraud_probability == predict_proba(model, f.val) IN
         Ok([fraud_probability |-> fraud_probability,
             prediction |-> fraud_probability > 50000,
             feature_importance |-> AFD_feature_importance(model),
             model_confidence |-> Max(fraud_probability, 100000 - fraud_probability)])

\* try: ... except Exception: around the whole body of predict
AFD_predict_result(r) ==
    IF r.exc = "" THEN Ok(r.val) ELSE Ok(AFD_degraded(r.exc))

AFD_predict(model, filing_data, taxpayer_history) ==
    AFD_predict_result(AFD_predict_try(model, filing_data, taxpayer_history))

\* mutant: extract_features refits self.scaler on the features it is given, so
\* the estimator no longer scores as it was trained
AFD_extract_features_effect_refit(model) ==
    [model EXCEPT !.proba = [l \in Leaves |-> 0]]

\* what an extract_features call leaves in self.ml_model and self.scaler: the
\* method assigns no attribute and calls no fit
AFD_extract_features_effect(model) == model

\* mutant: predict refits the classifier on the filing it scores
AFD_predict_effect_refit(model) ==
    [model EXCEPT !.proba = [l \in Leaves |-> 0]]

\* what a predict call leaves in self.ml_model and self.scaler: it calls
\* transform, predict_proba and reads feature_importances_, and assigns nothing
AFD_predict_effect(model) == model

\* mutant: the two weights exchanged
AFD_ensemble_score_swapped(fraud_probability, rule_based_score) ==
    (fraud_probability * 3 + rule_based_score * 7) \div 10

\* ml_result['fraud_probability'] * 0.7 + rule_based_score * 0.3, in 1/100000
AFD_ensemble_score(fraud_probability, rule_based_score) ==
    (fraud_probability * 7 + rule_based_score * 3) \div 10

\* mutant: threshold inclusive
AFD_final_prediction_inclusive(ensemble_score) == ensemble_score >= 60000

\* ensemble_score > 0.6
AFD_final_prediction(ensemble_score) == ensemble_score > 60000

\* the dict ensemble_predict returns, from predict's result
AFD_ensemble_result(ml_result, rule_based_score) ==
    LET ensemble_score == AFD_ensemble_score(ml_result.fraud_probability, rule_based_score)
    IN [ensemble_score |-> ensemble_score,
        ml_score |-> ml_result.fraud_probability,
        rule_based_score |-> rule_based_score,
        final_prediction |-> AFD_final_prediction(ensemble_score),
        ml_confidence |-> ml_result.model_confidence,
        feature_importance |-> ml_result.feature_importance]

AFD_ensemble_predict(model, filing_data, taxpayer_history, rule_based_score) ==
    LET r == AFD_predict(model, filing_data, taxpayer_history) IN
    IF r.exc # "" THEN Raise(r.exc)
    ELSE Ok(AFD_ensemble_result(r.val, rule_based_score))
-----------------------------------------------------------------------------
(* CacheManager (ai_engine/optimization/cache_manager.py) and
   OptimizedFraudDetectionAPI (ai_engine/views_optimized.py) *)

\* md5 of json.dumps(data, sort_keys=True): the key is held by what it hashes
generate_cache_key(prefix, data) == <<prefix, data>>

\* cache.get(key): the entry, or None
get_cached_analysis(store, filing_data) ==
    LET cache_key == generate_cache_key("fraud_analysis", filing_data) IN
    IF cache_key \in DOMAIN store THEN [hit |-> TRUE, val |-> store[cache_key]]
    ELSE [hit |-> FALSE, val |-> <<>>]

\* cache.set(key, analysis_result, 86400)
cache_analysis_result(store, filing_data, analysis_result) ==
    LET cache_key == generate_cache_key("fraud_analysis", filing_data) IN
    [k \in DOMAIN store \cup {cache_key} |->
        IF k = cache_key THEN analysis_result ELSE store[k]]

\* score in units of 1/100000
Opt_get_risk_level(score) ==
    IF score >= 70000 THEN "HIGH"
    ELSE IF score >= 40000 THEN "MEDIUM"
    ELSE "LOW"

Opt_get_recommendation(score) ==
    IF score >= 70000 THEN "Immediate manual review required - high fraud probability"
    ELSE IF score >= 40000 THEN "Enhanced verification recommended - moderate risk"
    ELSE "Standard processing - low risk detected"

\* the rule score the handler hands to ensemble_predict
Opt_rule_based_score(ml_result, filing_data, taxpayer_history) ==
    ml_result.fraud_probability

\* {'success': True, 'cached': True, **cached_result}: later keys win
Opt_hit_response(cached_result) ==
    cached_result @@ [success |-> TRUE, cached |-> TRUE]

\* the locals and the response of a request that misses the cache
Opt_compute(model, filing_data, taxpayer_history) ==
    LET ml_result == AFD_predict(model, filing_data, taxpayer_history).val
        ensemble_result ==
            AFD_ensemble_predict(model, filing_data, taxpayer_history,
                Opt_rule_based_score(ml_result, filing_data, taxpayer_history)).val
    IN [ml_result |-> ml_result,
        ensemble_result |-> ensemble_result,
        response_data |->
          [success |-> TRUE,
           cached |-> FALSE,
           risk_score |-> ensemble_result.ensemble_score,
           risk_level |-> Opt_get_risk_level(ensemble_result.ensemble_score),
           ml_confidence |-> ensemble_result.ml_confidence,
           feature_importance |-> ensemble_result.feature_importance,
           analysis_method |-> "advanced_ensemble",
           recommendation |-> Opt_get_recommendation(ensemble_result.ensemble_score)]]

-----------------------------------------------------------------------------
(* Construction of the estimator: AdvancedFraudDetector.__init__,
   _load_or_initialize_model, _initialize_new_model.

   ml and scaler say what the attribute holds: "none", "unfitted"
   (RandomForestClassifier(...) / StandardScaler() before fit), "fitted"
   (fitted on the demo data) or "loaded" (read by joblib.load); ml_by and
   scaler_by name the step that last assigned or fitted it: "init", "load",
   "try" (the bootstrap called in the try-body) or "except" (the bootstrap
   called in the handler).  A file is "none", "ok" or "corrupt" (left by a dump
   that raised, not loadable). *)

\* __init__ before _load_or_initialize_model: ml_model = None, scaler = StandardScaler()
BootStart(model_file, scaler_file) ==
    [pc |-> "start", ml |-> "none", ml_by |-> "init",
     scaler |-> "unfitted", scaler_by |-> "init",
     model_file |-> model_file, scaler_file |-> scaler_file]

\* the statements of _initialize_new_model and of joblib.load that can raise
BootstrapFaults == {"", "fit_transform", "fit", "makedirs", "dump_model", "dump_scaler"}

LoadFaults == {"", "load_model", "load_scaler"}

\* _initialize_new_model called from step by; fault names the statement that
\* raises ("" if none)
AFD_initialize_new_model(b, by, fault) ==
    LET created == [b EXCEPT !.ml = "unfitted", !.ml_by = by]
        scaled == [created EXCEPT !.scaler = "fitted", !.scaler_by = by]
        fitted == [scaled EXCEPT !.ml = "fitted"]
        dumped1 == [fitted EXCEPT !.model_file = "ok"]
        dumped2 == [dumped1 EXCEPT !.scaler_file = "ok"]
    IN CASE fault = "fit_transform" -> Raise("Exception") @@ [state |-> created]
         [] fault = "fit" -> Raise("Exception") @@ [state |-> scaled]
         [] fault = "makedirs" -> Raise("Exception") @@ [state |-> fitted]
         [] fault = "dump_model" ->
                Raise("Exception") @@ [state |-> [fitted EXCEPT !.model_file = "corrupt"]]
         [] fault = "dump_scaler" ->
                Raise("Exception") @@ [state |-> [dumped1 EXCEPT !.scaler_file = "corrupt"]]
         [] OTHER -> Ok(<<>>) @@ [state |-> dumped2]

\* the handler of _load_or_initialize_model without its bootstrap: the failure
\* is logged and the method returns
AFD_load_except_logged(r, fault2) ==
    Ok(<<>>) @@ [state |-> r.state]

\* the handler of _load_or_initialize_model: a failure in the try-body starts
\* the bootstrap again, outside any handler
AFD_load_except(r, fault2) ==
    IF r.exc = "" THEN r ELSE AFD_initialize_new_model(r.state, "except", fault2)

\* _load_or_initialize_model; fault0 is the fault of the loads, fault1 that of
\* the bootstrap called in the try-body, fault2 that of the bootstrap called in
\* the handler
AFD_load_or_initialize_model(b, fault0, fault1, fault2) ==
    LET try_body ==
          IF b.model_file # "none" /\ b.scaler_file # "none"
          THEN IF b.model_file = "corrupt" \/ fault0 = "load_model"
               THEN Raise("Exception") @@ [state |-> b]
               ELSE LET b1 == [b EXCEPT !.ml = "loaded", !.ml_by = "load"] IN
                    IF b.scaler_file = "corrupt" \/ fault0 = "load_scaler"
                    THEN Raise("Exception") @@ [state |-> b1]
                    ELSE Ok(<<>>) @@
                         [state |-> [b1 EXCEPT !.scaler = "loaded", !.scaler_by = "load"]]
          ELSE AFD_initialize_new_model(b, "try", fault1)
    IN AFD_load_except(try_body, fault2) @@ [try_exc |-> try_body.exc]

\* AdvancedFraudDetector(): returns, or raises what the handler's bootstrap raised
AFD_construct(b, fault0, fault1, fault2) ==
    LET r == AFD_load_or_initialize_model(b, fault0, fault1, fault2) IN
    [exc |-> r.exc, try_exc |-> r.try_exc,
     state |-> [r.state EXCEPT !.pc = IF r.exc = "" THEN "returned" ELSE "raised"]]

\* the estimator of a process started on an empty model directory
Bootstrapped == AFD_construct(BootStart("none", "none"), "", "", "").state

-----------------------------------------------------------------------------
(* Bounds and input sets *)

MaxHistory == 1

Incomes == {Missing, NoneVal, Num(0), Num(10000), Num(30000), Num(50000)}
Deductions == {Missing, NoneVal, Num(0), Num(8000), Num(15000), Num(18000)}
Sectors == {"retail", "manufacturing", "services", "construction", SectorNone, SectorMissing}
TaxPeriods == {<<>>, <<"Q", "1", "-", "E", "a", "r", "l", "y">>}

Filings ==
    [income : Incomes, deductions : Deductions,
     business_sector : Sectors, tax_period : TaxPeriods]

\* filings handed to the rule-based analyzer: as Filings, and with an income
\* below zero, one on the 25000 boundary, one that 18000 is 45% of, and two
\* that are 3000 and exactly 50% above a historical income of 42000, and a
\* positive one below 10000
AnalyzerIncomes ==
    Incomes \cup {Num(-500), Num(5000), Num(12300), Num(25000), Num(40000), Num(45000),
                  Num(63000)}

\* and with deductions that are no multiple of 1000
AnalyzerDeductions == Deductions \cup {Num(7300)}

AnalyzerFilings ==
    [income : AnalyzerIncomes, deductions : AnalyzerDeductions,
     business_sector : Sectors, tax_period : TaxPeriods]

HistoryFilings == {[income |-> Num(42000)], [income |-> NoneVal]}
Histories == UNION {[1..n -> HistoryFilings] : n \in 0..MaxHistory}

\* probabilities a leaf of the classifier can hold, rule scores a caller can pass
Probs == {0, 60000, 100000}
RuleScores == {0, 60000, 60010, 100000}
ScoreGrid == {0, 39990, 40000, 69990, 70000, 100000}

Models ==
    [proba : [Leaves -> Probs],
     feature_importances_ : {<<10, 10, 40, 10, 10, 10, 10>>}]

\* requests sent to the cached endpoint
ApiFilings ==
    {f \in Filings :
       /\ f.deductions \in {Num(8000), Num(15000)}
       /\ f.business_sector = "services"
       /\ f.income \in {Num(30000), NoneVal}
       /\ (f.income = NoneVal => f.deductions = Num(15000) /\ f.tax_period = <<>>)}

NoArgs ==
    [filing_data |-> <<>>, taxpayer_history |-> <<>>, rule_based_score |-> 0,
     score |-> 0, filing_id |-> ""]

\* request threads of the server process
NumThreads == 2
Threads == 1..NumThreads

\* a thread that is not inside a scoring call
NoCall == [pc |-> "idle", kind |-> "", args |-> NoArgs, features |-> <<>>,
           fraud_probability |-> 0, ret |-> <<>>]

\* an existing conversation without messages and without requests in progress
NoChat ==
    [total_messages |-> 0, messages |-> <<>>,
     requests |-> [t \in Threads |-> [pc |-> "idle", count |-> 0, served |-> 0]]]

NoMemo == [op |-> "idle", args |-> NoArgs, ret |-> <<>>, raised |-> ""]

-----------------------------------------------------------------------------
(* State machine *)

Init ==
    /\ ml_model \in Models
    /\ op = "idle"
    /\ args = NoArgs
    /\ ret = <<>>
    /\ raised = ""
    /\ frame = <<>>
    /\ cache = <<>>
    /\ boot = Bootstrapped
    /\ db = {}
    /\ memo = NoMemo
    /\ calls = [t \in Threads |-> NoCall]
    /\ ledger = <<>>
    /\ chat = NoChat

\* FraudDetector.analyze(filing_data, taxpayer_history)
Analyze(filing_data, taxpayer_history) ==
    LET r == FD_analyze(filing_data, taxpayer_history) IN
    /\ op = "idle"
    /\ op' = "analyze"
    /\ args' = [NoArgs EXCEPT !.filing_data = filing_data,
                              !.taxpayer_history = taxpayer_history]
    /\ ret' = r.val
    /\ raised' = r.exc
    /\ frame' = [try_exc |-> FD_analyze_try(filing_data, taxpayer_history).exc]
    /\ UNCHANGED <<ml_model, cache, boot, db, memo, calls, ledger, chat>>

\* AdvancedFraudDetector.extract_features(filing_data, taxpayer_history)
ExtractFeatures(filing_data, taxpayer_history) ==
    LET r == AFD_extract_features(filing_data, taxpayer_history) IN
    /\ op = "idle"
    /\ boot.pc = "returned"
    /\ op' = "extract_features"
    /\ args' = [NoArgs EXCEPT !.filing_data = filing_data,
                              !.taxpayer_history = taxpayer_history]
    /\ ret' = r.val
    /\ raised' = r.exc
    /\ frame' = <<>>
    /\ ml_model' = AFD_extract_features_effect(ml_model)
    /\ UNCHANGED <<cache, boot, db, memo, calls, ledger, chat>>

\* AdvancedFraudDetector.predict(filing_data, taxpayer_history)
Predict(filing_data, taxpayer_history) ==
    LET r == AFD_predict(ml_model, filing_data, taxpayer_history) IN
    /\ op = "idle"
    /\ boot.pc = "returned"
    /\ op' = "predict"
    /\ args' = [NoArgs EXCEPT !.filing_data = filing_data,
                              !.taxpayer_history = taxpayer_history]
    /\ ret' = r.val
    /\ raised' = r.exc
    /\ frame' = [try_exc |-> AFD_predict_try(ml_model, filing_data, taxpayer_history).exc]
    /\ ml_model' = AFD_predict_effect(ml_model)
    /\ UNCHANGED <<cache, boot, db, memo, calls, ledger, chat>>

\* AdvancedFraudDetector.ensemble_predict(filing_data, taxpayer_history, rule_based_score)
EnsemblePredict(filing_data, taxpayer_history, rule_based_score) ==
    LET r == AFD_ensemble_predict(ml_model, filing_data, taxpayer_history, rule_based_score) IN
    /\ op = "idle"
    /\ boot.pc = "returned"
    /\ op' = "ensemble_predict"
    /\ args' = [NoArgs EXCEPT !.filing_data = filing_data,
                              !.taxpayer_history = taxpayer_history,
                              !.rule_based_score = rule_based_score]
    /\ ret' = r.val
    /\ raised' = r.exc
    /\ frame' = [ml_result |-> AFD_predict(ml_model, filing_data, taxpayer_history).val]
    /\ ml_model' = AFD_predict_effect(ml_model)
    /\ UNCHANGED <<cache, boot, db, memo, calls, ledger, chat>>

\* FraudDetector._get_risk_level(risk_score)
FDGetRiskLevel(score) ==
    /\ op = "idle"
    /\ op' = "FraudDetector._get_risk_level"
    /\ args' = [NoArgs EXCEPT !.score = score]
    /\ ret' = FD_get_risk_level(score)
    /\ raised' = ""
    /\ frame' = <<>>
    /\ UNCHANGED <<ml_model, cache, boot, db, memo, calls, ledger, chat>>

\* OptimizedFraudDetectionAPI._get_risk_level(score)
OptGetRiskLevel(score) ==
    /\ op = "idle"
    /\ op' = "OptimizedFraudDetectionAPI._get_risk_level"
    /\ args' = [NoArgs EXCEPT !.score = score]
    /\ ret' = Opt_get_risk_level(score)
    /\ raised' = ""
    /\ frame' = <<>>
    /\ UNCHANGED <<ml_model, cache, boot, db, memo, calls, ledger, chat>>

\* OptimizedFraudDetectionAPI.post, served from the cache
OptimizedPostHit(filing_data, taxpayer_history) ==
    LET cached_result == get_cached_analysis(cache, filing_data) IN
    /\ op = "idle"
    /\ cached_result.hit
    /\ op' = "post"
    /\ args' = [NoArgs EXCEPT !.filing_data = filing_data,
                              !.taxpayer_history = taxpayer_history]
    /\ ret' = [status |-> 200, data |-> Opt_hit_response(cached_result.val)]
    /\ raised' = ""
    /\ frame' = [cache_hit |-> TRUE]
    /\ UNCHANGED <<ml_model, cache, boot, db, memo, calls, ledger, chat>>

\* OptimizedFraudDetectionAPI.post, computed and stored
OptimizedPostMiss(filing_data, taxpayer_history) ==
    LET cached_result == get_cached_analysis(cache, filing_data)
        c == Opt_compute(ml_model, filing_data, taxpayer_history)
    IN
    /\ op = "idle"
    /\ ~cached_result.hit
    /\ op' = "post"
    /\ args' = [NoArgs EXCEPT !.filing_data = filing_data,
                              !.taxpayer_history = taxpayer_history]
    /\ cache' = cache_analysis_result(cache, filing_data, c.response_data)
    /\ ret' = [status |-> 200, data |-> c.response_data]
    /\ raised' = ""
    /\ frame' = [cache_hit |-> FALSE, ml_result |-> c.ml_result,
                 ensemble_result |-> c.ensemble_result]
    /\ ml_model' = AFD_predict_effect(AFD_predict_effect(ml_model))
    /\ UNCHANGED <<boot, db, memo, calls, ledger, chat>>

\* an entry of the cache reaches its timeout (86400 s)
CacheExpire(k) ==
    /\ op = "idle"
    /\ k \in DOMAIN cache
    /\ cache' = [j \in DOMAIN cache \ {k} |-> cache[j]]
    /\ UNCHANGED <<ml_model, op, args, ret, raised, frame, boot, db, memo, calls, ledger, chat>>

\* the caller consumes the returned value; the next call can start
Return ==
    /\ op # "idle"
    /\ op' = "idle"
    /\ args' = NoArgs
    /\ ret' = <<>>
    /\ raised' = ""
    /\ frame' = <<>>
    /\ UNCHANGED <<ml_model, cache, boot, db, memo, calls, ledger, chat>>

Next ==
    \/ op = "idle" /\ \E f \in AnalyzerFilings, h \in Histories : Analyze(f, h)
    \/ op = "idle" /\ \E f \in Filings, h \in Histories : ExtractFeatures(f, h)
    \/ op = "idle" /\ \E f \in Filings, h \in Histories : Predict(f, h)
    \/ op = "idle" /\ \E f \in Filings, h \in Histories, r \in RuleScores :
                          EnsemblePredict(f, h, r)
    \/ op = "idle" /\ \E s \in ScoreGrid : FDGetRiskLevel(s)
    \/ op = "idle" /\ \E s \in ScoreGrid : OptGetRiskLevel(s)
    \/ Return

Spec == Init /\ [][Next]_vars

ApiNext ==
    \/ \E f \in ApiFilings, h \in Histories : OptimizedPostHit(f, h)
    \/ \E f \in ApiFilings, h \in Histories : OptimizedPostMiss(f, h)
    \/ \E k \in DOMAIN cache : CacheExpire(k)
    \/ Return

ApiSpec == Init /\ [][ApiNext]_vars

\* the scoring methods of AdvancedFraudDetector
ScoringKinds == {"extract_features", "predict", "ensemble_predict"}

-----------------------------------------------------------------------------
(* FraudDetectionAPI (ai_engine/views.py) and TaxFilingAnalysis
   (ai_engine/models.py): filing_id is a unique column *)

\* filing_data without a filing_id key
IdMissing == "<missing>"

\* filing_data.get('filing_id', 'unknown')
GetFilingId(filing_id) == IF filing_id = IdMissing THEN "unknown" ELSE filing_id

\* TaxFilingAnalysis.objects.create(filing_id=...): the table after the
\* insert, or IntegrityError when a row with that filing_id exists
TaxFilingAnalysis_create(rows, filing_id) ==
    IF filing_id \in rows
    THEN Raise("IntegrityError") @@ [rows |-> rows]
    ELSE Ok(filing_id) @@ [rows |-> rows \cup {filing_id}]

\* the try-body of FraudDetectionAPI.post for a request the serializer accepts
FraudPost_try(rows, filing_id, filing_data, taxpayer_history) ==
    LET analysis_result == FD_analyze(filing_data, taxpayer_history).val
        analysis_record == TaxFilingAnalysis_create(rows, GetFilingId(filing_id))
    IN
    IF analysis_record.exc # ""
    THEN Raise(analysis_record.exc) @@ [rows |-> analysis_record.rows]
    ELSE Ok([status |-> 200,
             data |-> [success |-> TRUE,
                       risk_score |-> analysis_result.score,
                       risk_level |-> analysis_result.level,
                       risk_factors |-> analysis_result.factors,
                       confidence |-> analysis_result.confidence,
                       recommendation |-> analysis_result.recommendation,
                       analysis_id |-> analysis_record.val,
                       detailed_analysis |-> analysis_result.detailed_analysis]])
         @@ [rows |-> analysis_record.rows]

\* except Exception: the 500 response
FraudPost_response(r) ==
    IF r.exc = "" THEN r.val
    ELSE [status |-> 500,
          data |-> [success |-> FALSE,
                    error |-> "Internal server error during fraud analysis",
                    details |-> r.exc]]

FilingIds == {"F-1", "F-2", IdMissing}

PostFilings ==
    {f \in Filings : /\ f.income \in {Num(50000), Num(10000)}
                     /\ f.deductions \in {Num(15000), Num(8000)}
                     /\ f.business_sector \in {"services", "retail"}
                     /\ f.tax_period = <<>>}

\* FraudDetectionAPI.post with valid filing_data
FraudPost(filing_id, filing_data, taxpayer_history) ==
    LET r == FraudPost_try(db, filing_id, filing_data, taxpayer_history) IN
    /\ op = "idle"
    /\ op' = "analyze-fraud"
    /\ args' = [NoArgs EXCEPT !.filing_id = filing_id,
                              !.filing_data = filing_data,
                              !.taxpayer_history = taxpayer_history]
    /\ db' = r.rows
    /\ ret' = FraudPost_response(r)
    /\ raised' = ""
    /\ frame' = [try_exc |-> r.exc]
    /\ UNCHANGED <<ml_model, cache, boot, memo, calls, ledger, chat>>

PostNext ==
    \/ \E i \in FilingIds, f \in PostFilings : FraudPost(i, f, <<>>)
    \/ Return

PostSpec == Init /\ [][PostNext]_vars

-----------------------------------------------------------------------------
(* Process start: the module-level AdvancedFraudDetector() of views_optimized
   runs on whatever the model directory holds; files outlive the process *)

FileStates == {"none", "ok", "corrupt"}

BootFilings ==
    {f \in Filings : /\ f.income = Num(30000)
                     /\ f.deductions \in {Num(8000), Num(18000)}
                     /\ f.business_sector = "services"
                     /\ f.tax_period = <<>>}

BootInit ==
    /\ ml_model \in Models
    /\ op = "idle"
    /\ args = NoArgs
    /\ ret = <<>>
    /\ raised = ""
    /\ frame = <<>>
    /\ cache = <<>>
    /\ boot \in {BootStart(m, sc) : m \in FileStates, sc \in FileStates}
    /\ db = {}
    /\ memo = NoMemo
    /\ calls = [t \in Threads |-> NoCall]
    /\ ledger = <<>>
    /\ chat = NoChat

\* advanced_fraud_detector = AdvancedFraudDetector()
Construct(fault0, fault1, fault2) ==
    LET r == AFD_construct(boot, fault0, fault1, fault2) IN
    /\ op = "idle"
    /\ boot.pc = "start"
    /\ boot' = r.state
    /\ op' = "__init__"
    /\ args' = NoArgs
    /\ ret' = <<>>
    /\ raised' = r.exc
    /\ frame' = [try_exc |-> r.try_exc,
                 fault2 |-> IF r.try_exc # "" THEN fault2 ELSE ""]
    /\ UNCHANGED <<ml_model, cache, db, memo, calls, ledger, chat>>

\* the server process is started again on the files the last one left
ProcessStart ==
    /\ op = "idle"
    /\ boot.pc \in {"returned", "raised"}
    /\ boot' = BootStart(boot.model_file, boot.scaler_file)
    /\ UNCHANGED <<ml_model, cache, op, args, ret, raised, frame, db, memo, calls, ledger, chat>>

BootNext ==
    \/ \E f0 \in LoadFaults, f1 \in BootstrapFaults, f2 \in BootstrapFaults :
          Construct(f0, f1, f2)
    \/ ProcessStart
    \/ op = "idle" /\ \E f \in BootFilings : Predict(f, <<>>)
    \/ Return

BootSpec == BootInit /\ [][BootNext]_vars

-----------------------------------------------------------------------------
(* The ledger (blockchain/models.py, blockchain/views.py) *)

\* str.upper() on one character of a hexadecimal string
UpperChar(c) ==
    CASE c = "a" -> "A" [] c = "b" -> "B" [] c = "c" -> "C"
      [] c = "d" -> "D" [] c = "e" -> "E" [] c = "f" -> "F" [] OTHER -> c

Upper(s) == [i \in 1..Len(s) |-> UpperChar(s[i])]

\* '0xZRA'
HashPrefix == <<"0", "x", "Z", "R", "A">>

\* f"0xZRA{uuid.uuid4().hex[:20].upper()}", from the 32 hex digits of the uuid
generate_transaction_hash(uuid_hex) == HashPrefix \o Upper(SubSeq(uuid_hex, 1, 20))

\* str.startswith
StartsWith(s, prefix) ==
    Len(s) >= Len(prefix) /\ SubSeq(s, 1, Len(prefix)) = prefix

\* the 32 hex digits uuid4 may produce (two of them)
UuidHexes == {[i \in 1..32 |-> c] : c \in {"a", "7"}}

ReferenceIds == {"FILING-1", "FILING-2"}

\* TransactionCreateSerializer.create: BlockchainTransaction.objects.create
\* with the default hash and the default status; transaction_hash is unique
BlockchainTransaction_create(rows, reference_id, uuid_hex) ==
    LET h == generate_transaction_hash(uuid_hex) IN
    IF \E i \in 1..Len(rows) : rows[i].transaction_hash = h
    THEN Raise("IntegrityError") @@ [rows |-> rows]
    ELSE Ok([transaction_hash |-> h, reference_id |-> reference_id,
             status |-> "CONFIRMED"])
         @@ [rows |-> Append(rows, [transaction_hash |-> h,
                                    reference_id |-> reference_id,
                                    status |-> "CONFIRMED"])]

\* objects.get(transaction_hash=...): the row, or DoesNotExist
ByHash(rows, h) ==
    IF \E i \in 1..Len(rows) : rows[i].transaction_hash = h
    THEN Ok(rows[CHOOSE i \in 1..Len(rows) : rows[i].transaction_hash = h])
    ELSE Raise("DoesNotExist")

\* objects.filter(reference_id=...).first() under ordering -timestamp: the
\* newest row, or None
ByReference(rows, reference_id) ==
    LET idx == {i \in 1..Len(rows) : rows[i].reference_id = reference_id} IN
    IF idx = {} THEN Ok(NoneVal)
    ELSE Ok(rows[CHOOSE i \in idx : \A j \in idx : j <= i])

\* is_valid in VerifyTransactionAPI.get
is_valid(transaction) ==
    /\ StartsWith(transaction.transaction_hash, HashPrefix)
    /\ Len(transaction.transaction_hash) = 28
    /\ transaction.status = "CONFIRMED"

\* VerifyTransactionAPI.get; a hash that is not given is <<>>, a reference_id
\* that is not given is ""
Verify_response(rows, transaction_hash, reference_id) ==
    LET found == IF transaction_hash # <<>> THEN ByHash(rows, transaction_hash)
                 ELSE ByReference(rows, reference_id)
    IN
    IF transaction_hash = <<>> /\ reference_id = ""
    THEN [status |-> 400, data |-> [success |-> FALSE]]
    ELSE IF found.exc # ""
    THEN [status |-> 500, data |-> [success |-> FALSE, error |-> found.exc]]
    ELSE IF found.val = NoneVal
    THEN [status |-> 404, data |-> [success |-> FALSE, exists |-> FALSE]]
    ELSE [status |-> 200,
          data |-> [success |-> TRUE, exists |-> TRUE,
                    valid |-> is_valid(found.val),
                    transaction |-> found.val]]

\* BlockchainTransactionAPI.post with valid transaction data
RecordTransaction(reference_id, uuid_hex) ==
    LET r == BlockchainTransaction_create(ledger, reference_id, uuid_hex) IN
    /\ op = "idle"
    /\ op' = "record_transaction"
    /\ args' = NoArgs
    /\ ledger' = r.rows
    /\ ret' = IF r.exc = ""
              THEN [status |-> 201,
                    data |-> [success |-> TRUE,
                              transaction_hash |-> r.val.transaction_hash,
                              transaction |-> r.val]]
              ELSE [status |-> 500, data |-> [success |-> FALSE, error |-> r.exc]]
    /\ raised' = ""
    /\ frame' = [reference_id |-> reference_id]
    /\ UNCHANGED <<ml_model, cache, boot, db, memo, calls, chat>>

\* VerifyTransactionAPI.get with ?hash= or ?reference_id=
VerifyTransaction(transaction_hash, reference_id) ==
    /\ op = "idle"
    /\ op' = "verify"
    /\ args' = NoArgs
    /\ ret' = Verify_response(ledger, transaction_hash, reference_id)
    /\ raised' = ""
    /\ frame' = [hash |-> transaction_hash, reference_id |-> reference_id]
    /\ UNCHANGED <<ml_model, cache, boot, db, memo, calls, ledger, chat>>

LedgerNext ==
    \/ \E r \in ReferenceIds, u \in UuidHexes : RecordTransaction(r, u)
    \/ \E u \in UuidHexes : VerifyTransaction(generate_transaction_hash(u), "")
    \/ \E r \in ReferenceIds : VerifyTransaction(<<>>, r)
    \/ Return

LedgerSpec == Init /\ [][LedgerNext]_vars

-----------------------------------------------------------------------------
(* ChatbotAPI.post on one conversation (ai_engine/views.py) *)

\* requests each client sends on the conversation
MaxRequests == 2

\* one statement of the handler run by request thread t
ChatStep(t, to, messages, total_messages, count) ==
    /\ chat' = [total_messages |-> total_messages,
                messages |-> messages,
                requests |-> [chat.requests EXCEPT
                                 ![t] = [pc |-> to, count |-> count,
                                         served |-> IF to = "idle" THEN @.served + 1
                                                    ELSE @.served]]]
    /\ UNCHANGED <<ml_model, cache, op, args, ret, raised, frame, boot, db,
                   memo, calls, ledger>>

\* ChatbotConversation.objects.get(conversation_id=conversation_id)
ChatStart(t) ==
    /\ chat.requests[t].served < MaxRequests
    /\ chat.requests[t].pc = "idle"
    /\ ChatStep(t, "conversation", chat.messages, chat.total_messages, 0)

\* ChatMessage.objects.create(conversation, message_type='USER', ...)
ChatSaveUser(t) ==
    /\ chat.requests[t].pc = "conversation"
    /\ ChatStep(t, "user_saved",
                Append(chat.messages, [message_type |-> "USER", request |-> t]),
                chat.total_messages, 0)

\* chatbot_engine.get_response, then
\* ChatMessage.objects.create(conversation, message_type='BOT', ...)
ChatSaveBot(t) ==
    /\ chat.requests[t].pc = "user_saved"
    /\ ChatStep(t, "bot_saved",
                Append(chat.messages, [message_type |-> "BOT", request |-> t]),
                chat.total_messages, 0)

\* conversation.total_messages = ChatMessage.objects.filter(...).count(), on
\* the request's own instance of the conversation
ChatCount(t) ==
    /\ chat.requests[t].pc = "bot_saved"
    /\ ChatStep(t, "counted", chat.messages, chat.total_messages,
                Len(chat.messages))

\* conversation.save(), and the response
ChatSave(t) ==
    /\ chat.requests[t].pc = "counted"
    /\ ChatStep(t, "idle", chat.messages, chat.requests[t].count, 0)

ChatNext ==
    \E t \in Threads :
        \/ ChatStart(t)
        \/ ChatSaveUser(t)
        \/ ChatSaveBot(t)
        \/ ChatCount(t)
        \/ ChatSave(t)

ChatSpec == Init /\ [][ChatNext]_vars

-----------------------------------------------------------------------------
(* Repeated scoring calls: the caller keeps one returned value and calls again *)

DetFilings ==
    {f \in Filings : /\ f.income \in {Num(30000), NoneVal}
                     /\ f.deductions \in {Num(8000), Num(18000)}
                     /\ f.business_sector = "services"
                     /\ f.tax_period = <<>>}

DetHistories == {<<>>, <<[income |-> Num(42000)]>>}

DetRuleScores == {0, 60000}

\* the caller consumes the returned value and keeps it with the call it answers
Remember ==
    /\ op \in ScoringKinds
    /\ memo' = [op |-> op, args |-> args, ret |-> ret, raised |-> raised]
    /\ op' = "idle"
    /\ args' = NoArgs
    /\ ret' = <<>>
    /\ raised' = ""
    /\ frame' = <<>>
    /\ UNCHANGED <<ml_model, cache, boot, db, calls, ledger, chat>>

DetNext ==
    \/ op = "idle" /\ \E f \in DetFilings, h \in DetHistories : ExtractFeatures(f, h)
    \/ op = "idle" /\ \E f \in DetFilings, h \in DetHistories : Predict(f, h)
    \/ op = "idle" /\ \E f \in DetFilings, h \in DetHistories, r \in DetRuleScores :
                          EnsemblePredict(f, h, r)
    \/ Remember
    \/ Return

DetSpec == Init /\ [][DetNext]_vars

-----------------------------------------------------------------------------
(* Scoring calls of concurrent request threads on the one module-level
   AdvancedFraudDetector.  A call is split at each read of self.ml_model. *)

ConcFilings ==
    {f \in Filings : /\ f.income \in {Num(30000), NoneVal}
                     /\ f.deductions = Num(8000)
                     /\ f.business_sector = "services"
                     /\ f.tax_period = <<>>}

ConcHistories == {<<>>, <<[income |-> Num(42000)]>>}

ConcRuleScores == {60000}

\* what the call returns to its caller, from predict's result
ThreadFinish(c, predict_result) ==
    IF c.kind = "ensemble_predict"
    THEN Ok(AFD_ensemble_result(predict_result.val, c.args.rule_based_score))
    ELSE predict_result

\* the same call run alone on the estimator as it is now
Sequential(c) ==
    CASE c.kind = "extract_features" ->
             AFD_extract_features(c.args.filing_data, c.args.taxpayer_history)
      [] c.kind = "predict" ->
             AFD_predict(ml_model, c.args.filing_data, c.args.taxpayer_history)
      [] c.kind = "ensemble_predict" ->
             AFD_ensemble_predict(ml_model, c.args.filing_data, c.args.taxpayer_history,
                                  c.args.rule_based_score)

\* a thread enters extract_features, predict or ensemble_predict
ThreadCall(t, kind, filing_data, taxpayer_history, rule_based_score) ==
    /\ boot.pc = "returned"
    /\ calls[t].pc = "idle"
    /\ calls' = [calls EXCEPT ![t] =
                   [NoCall EXCEPT !.pc = "features", !.kind = kind,
                                  !.args = [NoArgs EXCEPT
                                              !.filing_data = filing_data,
                                              !.taxpayer_history = taxpayer_history,
                                              !.rule_based_score = rule_based_score]]]
    /\ UNCHANGED <<ml_model, cache, op, args, ret, raised, frame, boot, db, memo, ledger, chat>>

\* features = self.extract_features(filing_data, taxpayer_history)
ThreadFeatures(t) ==
    LET c == calls[t]
        f == AFD_extract_features(c.args.filing_data, c.args.taxpayer_history)
    IN
    /\ c.pc = "features"
    /\ calls' = [calls EXCEPT ![t] =
                   IF c.kind = "extract_features"
                   THEN [c EXCEPT !.pc = "done", !.ret = f]
                   ELSE IF f.exc # ""
                   THEN [c EXCEPT !.pc = "done",
                                  !.ret = ThreadFinish(c, AFD_predict_result(Raise(f.exc)))]
                   ELSE [c EXCEPT !.pc = "proba", !.features = f.val]]
    /\ ml_model' = AFD_extract_features_effect(ml_model)
    /\ UNCHANGED <<cache, op, args, ret, raised, frame, boot, db, memo, ledger, chat>>

\* fraud_probability = self.ml_model.predict_proba(self.scaler.transform(features))[0][1]
ThreadProba(t) ==
    LET c == calls[t] IN
    /\ c.pc = "proba"
    /\ calls' = [calls EXCEPT ![t] =
                   [c EXCEPT !.pc = "result",
                             !.fraud_probability = predict_proba(ml_model, c.features)]]
    /\ ml_model' = AFD_predict_effect(ml_model)
    /\ UNCHANGED <<cache, op, args, ret, raised, frame, boot, db, memo, ledger, chat>>

\* the returned dict: reads feature_importances_ and predict_proba once more
ThreadResult(t) ==
    LET c == calls[t]
        again == predict_proba(ml_model, c.features)
        ml_result == [fraud_probability |-> c.fraud_probability,
                      prediction |-> c.fraud_probability > 50000,
                      feature_importance |-> AFD_feature_importance(ml_model),
                      model_confidence |-> Max(again, 100000 - again)]
    IN
    /\ c.pc = "result"
    /\ calls' = [calls EXCEPT ![t] =
                   [c EXCEPT !.pc = "done", !.ret = ThreadFinish(c, Ok(ml_result))]]
    /\ UNCHANGED <<ml_model, cache, op, args, ret, raised, frame, boot, db, memo, ledger, chat>>

\* the call returns to the view
ThreadReturn(t) ==
    /\ calls[t].pc = "done"
    /\ calls' = [calls EXCEPT ![t] = NoCall]
    /\ UNCHANGED <<ml_model, cache, op, args, ret, raised, frame, boot, db, memo, ledger, chat>>

ConcInit ==
    /\ Init
    /\ ml_model.proba.high_deductions = 100000
    /\ ml_model.proba.normal = 60000

ConcNext ==
    \/ \E t \in Threads, k \in ScoringKinds, f \in ConcFilings, h \in ConcHistories,
          r \in ConcRuleScores : ThreadCall(t, k, f, h, r)
    \/ \E t \in Threads : ThreadFeatures(t)
    \/ \E t \in Threads : ThreadProba(t)
    \/ \E t \in Threads : ThreadResult(t)
    \/ \E t \in Threads : ThreadReturn(t)

ConcSpec == ConcInit /\ [][ConcNext]_vars
-----------------------------------------------------------------------------
(* Properties *)

\* the filings of final_validation.py's scenarios, sent without tax_period
LowRiskFiling ==
    [income |-> Num(50000), deductions |-> Num(15000),
     business_sector |-> "services", tax_period |-> <<>>]
HighRiskFiling ==
    [income |-> Num(10000), deductions |-> Num(8000),
     business_sector |-> "retail", tax_period |-> <<>>]
MediumRiskFiling ==
    [income |-> Num(30000), deductions |-> Num(18000),
     business_sector |-> "manufacturing", tax_period |-> <<>>]

\* the tiers of the data model: LOW < 0.4 <= MEDIUM < 0.7 <= HIGH
Tier(score) ==
    IF score < 40000 THEN "LOW" ELSE IF score < 70000 THEN "MEDIUM" ELSE "HIGH"

\* C1: ensemble_predict returns ensemble_score = 0.7*p + 0.3*r for the
\* estimator's probability p and the rule score r it was given, passes p
\* through as ml_score and r as rule_based_score, and the score is in [0,1].
C1_EnsembleFormula ==
    op = "ensemble_predict" =>
        LET p == frame.ml_result.fraud_probability
            r == args.rule_based_score
        IN /\ raised = ""
           /\ 10 * ret.ensemble_score = 7 * p + 3 * r
           /\ ret.ml_score = p
           /\ ret.rule_based_score = r
           /\ ret.ensemble_score >= 0
           /\ ret.ensemble_score <= 100000

C1_Witness ==
    /\ op = "ensemble_predict"
    /\ frame.ml_result.fraud_probability = 60000
    /\ args.rule_based_score = 100000
    /\ ret.ensemble_score = 72000

\* C2: final_prediction is true iff ensemble_score > 0.6, strictly: a score
\* of exactly 0.6 gives false.
C2_FinalIffAboveThreshold ==
    op = "ensemble_predict" =>
        (ret.final_prediction <=> ret.ensemble_score > 60000)

C2_Witness ==
    /\ op = "ensemble_predict"
    /\ ret.ensemble_score = 60000
    /\ ret.final_prediction = FALSE

\* C3: both _get_risk_level functions return LOW below 0.4, MEDIUM from 0.4
\* (inclusive) to below 0.7, HIGH from 0.7 (inclusive), so they agree; the
\* level analyze reports is that tier of its score.
C3_RiskLevelTiers ==
    /\ op = "FraudDetector._get_risk_level" => ret = Tier(args.score)
    /\ op = "OptimizedFraudDetectionAPI._get_risk_level" => ret = Tier(args.score)
    /\ (op = "analyze" /\ frame.try_exc = "") => ret.level = Tier(ret.score)

C3_Witness ==
    /\ op = "FraudDetector._get_risk_level"
    /\ args.score = 70000
    /\ ret = "HIGH"

\* C4 (as claimed): for income=10000, deductions=8000, retail, no history,
\* analyze reports income deviation 0.8, deduction ratio 0.9 and level HIGH.
C4_HighScenarioClaim ==
    (op = "analyze" /\ args.filing_data = HighRiskFiling /\ args.taxpayer_history = <<>>) =>
        /\ ret.detailed_analysis.factors_breakdown.income_deviation = 8
        /\ ret.detailed_analysis.factors_breakdown.deduction_ratio = 9
        /\ ret.level = "HIGH"

\* C5 (as claimed): for income=30000, deductions=18000, manufacturing, no
\* history, analyze returns level MEDIUM.
C5_MediumScenarioClaim ==
    (op = "analyze" /\ args.filing_data = MediumRiskFiling /\ args.taxpayer_history = <<>>) =>
        ret.level = "MEDIUM"

\* C6: for income=50000, deductions=15000, services, no history, analyze
\* emits no deduction-ratio finding and returns level LOW (whatever the
\* tax period).
C6_LowScenario ==
    (/\ op = "analyze"
     /\ [args.filing_data EXCEPT !.tax_period = <<>>] = LowRiskFiling
     /\ args.taxpayer_history = <<>>) =>
        /\ frame.try_exc = ""
        /\ ret.detailed_analysis.factors_breakdown.deduction_ratio = 0
        /\ \A i \in 1..Len(ret.factors) : ret.factors[i] \notin MentionsDeduction
        /\ ret.level = "LOW"

C6_Witness ==
    /\ op = "analyze"
    /\ args.filing_data = LowRiskFiling
    /\ args.taxpayer_history = <<>>
    /\ ret.score = 7500
    /\ ret.level = "LOW"

\* income is 0 or missing
ZeroIncome(filing_data) == Get(filing_data.income, 0) = Num(0)

\* C7: when income is 0 or missing, for every deductions value, no division
\* by zero occurs and the deduction ratio of the analyzer and the
\* deduction_ratio feature of the extractor are exactly 0.
C7_ZeroIncomeRatio ==
    /\ (op = "analyze" /\ ZeroIncome(args.filing_data)) =>
          /\ frame.try_exc # "ZeroDivisionError"
          /\ frame.try_exc = "" => ret.detailed_analysis.deduction_ratio.n = 0
    /\ (op = "extract_features" /\ ZeroIncome(args.filing_data)) =>
          /\ raised # "ZeroDivisionError"
          /\ raised = "" => ret.deduction_ratio.n = 0

C7_Witness ==
    /\ op = "extract_features"
    /\ args.filing_data.income = Num(0)
    /\ args.filing_data.deductions = Num(8000)
    /\ raised = ""
    /\ ret.deduction_ratio = Zero

\* C8: analyze and predict never raise; when the body of analyze fails it
\* returns score 0.0, level LOW, confidence 0.0, factors ['Analysis error']
\* and the manual-review recommendation; when the body of predict fails it
\* returns probability 0.0, prediction false, confidence 0.0, no feature
\* importance and an 'error' entry.
C8_NeverRaises ==
    /\ op = "analyze" =>
          /\ raised = ""
          /\ frame.try_exc # "" =>
                /\ ret.score = 0
                /\ ret.level = "LOW"
                /\ ret.confidence = 0
                /\ ret.factors = <<"Analysis error">>
                /\ ret.recommendation.base = "Manual review required due to analysis error"
    /\ op = "predict" =>
          /\ raised = ""
          /\ frame.try_exc # "" =>
                /\ ret.fraud_probability = 0
                /\ ret.prediction = FALSE
                /\ ret.model_confidence = 0
                /\ ret.feature_importance = <<>>
                /\ "error" \in DOMAIN ret

C8_Witness ==
    /\ op = "analyze"
    /\ frame.try_exc = "AttributeError"
    /\ raised = ""
    /\ ret.factors = <<"Analysis error">>

\* C9 (as claimed): if predict degraded for the filing, the decision
\* ensemble_predict returns carries an error indicator.
C9_DegradedPropagatedClaim ==
    (op = "ensemble_predict" /\ "error" \in DOMAIN frame.ml_result) =>
        "error" \in DOMAIN ret

\* C10 (as claimed): on the ensemble path of OptimizedFraudDetectionAPI.post
\* the rule_based_score combined into the ensemble is the score of
\* FraudDetector.analyze for the same filing and history.
C10_RuleScoreFromAnalyzerClaim ==
    (op = "post" /\ ~frame.cache_hit) =>
        frame.ensemble_result.rule_based_score =
            FD_analyze(args.filing_data, args.taxpayer_history).val.score

-----------------------------------------------------------------------------
(* The response cache of the ensemble endpoint *)

\* C11 (as claimed): every 200 response of OptimizedFraudDetectionAPI.post,
\* served from the cache or computed, carries the risk score and risk level
\* that a fresh computation on the request's own filing_data and
\* taxpayer_history returns.
C11_ResponseIsFreshClaim ==
    op = "post" =>
        LET fresh == Opt_compute(ml_model, args.filing_data, args.taxpayer_history).response_data
        IN /\ ret.data.risk_score = fresh.risk_score
           /\ ret.data.risk_level = fresh.risk_level

-----------------------------------------------------------------------------
(* FraudDetector.analyze: inputs below zero, weighting, income deviation *)

\* the same filing with income replaced by 0
WithZeroIncome(filing_data) == [filing_data EXCEPT !.income = Num(0)]

\* C13 (as claimed): for every filing with income < 0, analyze returns the
\* score, the level and the factors_breakdown it returns for the same filing
\* with income replaced by 0.
C13_NegativeIncomeAsZeroClaim ==
    (/\ op = "analyze"
     /\ IsNum(args.filing_data.income)
     /\ args.filing_data.income.v < 0
     /\ frame.try_exc = "") =>
        LET zero == FD_analyze(WithZeroIncome(args.filing_data), args.taxpayer_history).val
        IN /\ ret.score = zero.score
           /\ ret.level = zero.level
           /\ ret.detailed_analysis.factors_breakdown
                = zero.detailed_analysis.factors_breakdown

Checks ==
    {"income_deviation", "deduction_ratio", "historical_inconsistency",
     "round_numbers", "unusual_timing"}

RECURSIVE SumOver(_, _)
SumOver(f, S) ==
    IF S = {} THEN 0
    ELSE LET x == CHOOSE y \in S : TRUE IN f[x] + SumOver(f, S \ {x})

\* C16: for every non-degraded analyze result, score is
\* min(1.0, sum of factors_breakdown[check] * weight[check]) over the five
\* checks, with weights 0.30, 0.25, 0.20, 0.15, 0.10 that sum to 1.0; score
\* lies in [0, 1]; factors has one entry per check whose breakdown is > 0.
C16_WeightedSum ==
    (op = "analyze" /\ frame.try_exc = "") =>
        LET fb == ret.detailed_analysis.factors_breakdown
            weighted == [c \in Checks |-> fb[c] * risk_weights[c] * 10]
        IN /\ DOMAIN fb = Checks
           /\ DOMAIN risk_weights = Checks
           /\ risk_weights.income_deviation = 300
           /\ risk_weights.deduction_ratio = 250
           /\ risk_weights.historical_inconsistency = 200
           /\ risk_weights.round_numbers = 150
           /\ risk_weights.unusual_timing = 100
           /\ SumOver(risk_weights, Checks) = 1000
           /\ ret.score = Min(100000, SumOver(weighted, Checks))
           /\ ret.score >= 0 /\ ret.score <= 100000
           /\ Len(ret.factors) = Cardinality({c \in Checks : fb[c] > 0})

\* a non-degraded result in which three checks fired and two did not
C16_Witness ==
    /\ op = "analyze"
    /\ frame.try_exc = ""
    /\ Len(ret.factors) = 3
    /\ ret.detailed_analysis.factors_breakdown.deduction_ratio > 0
    /\ ret.detailed_analysis.factors_breakdown.unusual_timing > 0
    /\ ret.detailed_analysis.factors_breakdown.income_deviation = 0
    /\ ret.score > 0

-----------------------------------------------------------------------------
(* AdvancedFraudDetector.extract_features: timing slot, sector lookup *)

RECURSIVE GCD(_, _)
GCD(a, b) == IF b = 0 THEN a ELSE GCD(b, a % b)

\* a quotient with a positive denominator, in lowest terms
Reduce(x) ==
    LET g == GCD(Abs(x.n), x.d) IN [n |-> x.n \div g, d |-> x.d \div g]

\* comparison of the values of two quotients with positive denominators
RatEq(x, y) == Reduce(x) = Reduce(y)
RatGt(x, y) == Reduce(x).n * Reduce(y).d > Reduce(y).n * Reduce(x).d

\* filing_timing_score = 0.1
TimingDefault == [n |-> 1, d |-> 10]

\* C17 (as claimed): the extractor's filing-timing slot is the default 0.1
\* when tax_period has no marker, and is above the default exactly when
\* tax_period contains 'early' or 'delay' in any case, that is exactly when
\* FraudDetector._check_filing_timing fires.
C17_TimingSlotElevatedClaim ==
    (op = "extract_features" /\ raised = "") =>
        LET fires == FD_check_filing_timing(args.filing_data.tax_period).risk > 0 IN
        /\ ~fires => RatEq(ret.filing_timing_score, TimingDefault)
        /\ RatGt(ret.filing_timing_score, TimingDefault) <=> fires

\* the same filing with the business_sector key absent
WithoutSector(filing_data) == [filing_data EXCEPT !.business_sector = SectorMissing]

\* the sectors the specification enumerates
EnumeratedSectors == {"retail", "manufacturing", "services", "construction", "agriculture"}

\* C18 (as claimed): in extract_features a business_sector that is not in the
\* lookup table gets the industry-deviation slot of the same filing without a
\* business_sector, and each of retail, manufacturing, services, construction
\* and agriculture has its own entry in the table.
C18_UnknownSectorAsDefaultClaim ==
    (op = "extract_features" /\ raised = "") =>
        /\ args.filing_data.business_sector \notin
              (DOMAIN AFD_industry_averages \cup {SectorMissing}) =>
             RatEq(ret.income_industry_deviation,
                   AFD_extract_features(WithoutSector(args.filing_data),
                                        args.taxpayer_history).val.income_industry_deviation)
        /\ args.filing_data.business_sector \in EnumeratedSectors =>
             args.filing_data.business_sector \in DOMAIN AFD_industry_averages

-----------------------------------------------------------------------------
(* FraudDetector._check_industry_deviation *)

\* the risk the income-deviation check is said to give, in tenths
IncomeTier(income) ==
    IF income < 10000 THEN 8 ELSE IF income < 25000 THEN 4 ELSE 0

\* C20: the income-deviation risk of a non-degraded analyze result is 0.8 when
\* income < 10000, 0.4 when 10000 <= income < 25000 and 0 when
\* income >= 25000, and is the same for the filing under every other business
\* sector and every other history that analyze does not degrade on.
C20_IncomeDeviationByIncomeAlone ==
    (op = "analyze" /\ frame.try_exc = "") =>
        LET income == Get(args.filing_data.income, 0).v
            own == ret.detailed_analysis.factors_breakdown.income_deviation
        IN /\ own = IncomeTier(income)
           /\ \A s \in Sectors, h \in Histories :
                LET other == FD_analyze_try([args.filing_data EXCEPT !.business_sector = s], h)
                IN other.exc = "" =>
                     other.val.detailed_analysis.factors_breakdown.income_deviation = own

\* income exactly 25000, a sector of the analyzer's table and a history
C20_Witness ==
    /\ op = "analyze"
    /\ frame.try_exc = ""
    /\ args.filing_data.income = Num(25000)
    /\ args.filing_data.business_sector = "construction"
    /\ Len(args.taxpayer_history) > 0
    /\ ret.detailed_analysis.factors_breakdown.income_deviation = 0

-----------------------------------------------------------------------------
(* Scoring calls and the estimator's parameters *)

\* C19: no step of an extract_features, predict or ensemble_predict call
\* changes ml_model, the scaler or the persisted model files, and every call
\* of concurrently running threads returns what the same call returns when it
\* runs alone.
C19_ScoringLeavesEstimator ==
    /\ [](\A t \in Threads : calls[t].pc = "done" => calls[t].ret = Sequential(calls[t]))
    /\ [][ml_model' = ml_model /\ boot' = boot]_vars

\* a predict call has returned a non-degraded result while an ensemble_predict
\* call of another thread on another history is between its reads of ml_model
C19_Witness ==
    /\ calls[1].pc = "done"
    /\ calls[1].kind = "predict"
    /\ "error" \notin DOMAIN calls[1].ret.val
    /\ calls[2].pc = "result"
    /\ calls[2].kind = "ensemble_predict"
    /\ calls[2].args.taxpayer_history # calls[1].args.taxpayer_history

\* C12: two calls of extract_features, of predict or of ensemble_predict with
\* identical arguments return identical results (and raise alike), whatever
\* calls were made between them.  No call changes the model parameters, so
\* the parameters are unchanged between any two calls.
C12_Deterministic ==
    (op \in ScoringKinds /\ memo.op = op /\ memo.args = args) =>
        (ret = memo.ret /\ raised = memo.raised)

\* a predict call answered without degradation, and a later predict call with
\* the same filing and history
C12_Witness ==
    /\ op = "predict"
    /\ memo.op = "predict"
    /\ memo.args = args
    /\ Len(args.taxpayer_history) > 0
    /\ "error" \notin DOMAIN ret
    /\ ret.fraud_probability > 0

-----------------------------------------------------------------------------
(* Construction of the estimator *)

\* a trained classifier with the fitted scaler that belongs to it: both read
\* by the same load, or both fitted by the same bootstrap
WholeEstimator(b) ==
    \/ /\ b.ml = "loaded" /\ b.ml_by = "load"
       /\ b.scaler = "loaded" /\ b.scaler_by = "load"
    \/ /\ b.ml = "fitted" /\ b.scaler = "fitted"
       /\ b.ml_by = b.scaler_by
       /\ b.ml_by \in {"try", "except"}

\* C14: whenever AdvancedFraudDetector() has returned, ml_model is a trained
\* classifier and scaler the fitted scaler of the same load or the same
\* bootstrap; when the try-body and the handler's bootstrap both fail the
\* constructor raises; and a scoring call runs only on such an estimator.
C14_NoHalfInitializedEstimator ==
    /\ boot.pc = "returned" => WholeEstimator(boot)
    /\ (op = "__init__" /\ frame.try_exc # "" /\ frame.fault2 # "") =>
          (raised # "" /\ boot.pc = "raised")
    /\ op \in ScoringKinds => (boot.pc = "returned" /\ WholeEstimator(boot))

\* the try-body failed (a load or its bootstrap raised) and the constructor
\* returned with the pair fitted by the handler's bootstrap
C14_Witness ==
    /\ op = "__init__"
    /\ frame.try_exc # ""
    /\ raised = ""
    /\ boot.pc = "returned"
    /\ boot.ml_by = "except"
    /\ boot.scaler_by = "except"

-----------------------------------------------------------------------------
(* The fraud-analysis endpoint *)

-----------------------------------------------------------------------------
(* FraudDetector._check_deduction_ratio, _check_historical_consistency,
   _check_round_numbers *)

\* the risk the deduction-ratio check is said to give, in tenths: the
\* strongest tier that matches, the third being ratio > typical + 0.1
DeductionTier(ratio, typical) ==
    IF 10 * ratio.n > 7 * ratio.d THEN 9
    ELSE IF 10 * ratio.n > 5 * ratio.d THEN 6
    ELSE IF 100 * ratio.n > (typical + 10) * ratio.d THEN 3
    ELSE 0

\* C21 (as claimed): the deduction-ratio risk of a non-degraded analyze result
\* is 0.9 if ratio > 0.7, else 0.6 if ratio > 0.5, else 0.3 if
\* ratio > typical ratio of the sector + 0.1, else 0, with the services ratio
\* for a sector outside the table; so a ratio more than 0.1 above the typical
\* one always has a finding.
C21_DeductionTiersClaim ==
    (op = "analyze" /\ frame.try_exc = "") =>
        LET ratio == ret.detailed_analysis.deduction_ratio
            sector == LowerSector(GetSector(args.filing_data))
            typical == IF sector \in DOMAIN industry_averages
                       THEN industry_averages[sector] ELSE industry_averages.services
            own == ret.detailed_analysis.factors_breakdown.deduction_ratio
        IN /\ own = DeductionTier(ratio, typical)
           /\ 100 * ratio.n > (typical + 10) * ratio.d => own > 0

\* the risk the historical-consistency check is said to give for a relative
\* deviation d, in tenths
HistoryTier(d) ==
    IF 10 * d.n > 5 * d.d THEN 7
    ELSE IF 10 * d.n > 3 * d.d THEN 4
    ELSE 0

\* the absolute value of a quotient with a positive denominator
RatAbs(x) == [n |-> Abs(x.n), d |-> x.d]

DivisibleCount(income, deductions) ==
    Cardinality({i \in 1..3 : <<income, deductions, income - deductions>>[i] % 1000 = 0})

\* the risk the round-number check is said to give for a count, in tenths
RoundTier(count) == IF count >= 2 THEN 5 ELSE IF count = 1 THEN 2 ELSE 0

\* C23: in a non-degraded analyze result the round-number risk is 0.5 when at
\* least two of income, deductions and income - deductions are divisible by
\* 1000, 0.2 when exactly one is and 0 when none is; the count is between 0
\* and 3; and the extractor's round_number_count for the same filing is that
\* count.
C23_RoundNumberCount ==
    /\ (op = "analyze" /\ frame.try_exc = "") =>
          LET income == Get(args.filing_data.income, 0).v
              deductions == Get(args.filing_data.deductions, 0).v
              count == DivisibleCount(income, deductions)
              features == AFD_extract_features(args.filing_data, args.taxpayer_history)
          IN /\ count \in 0..3
             /\ ret.detailed_analysis.factors_breakdown.round_numbers = RoundTier(count)
             /\ features.exc = ""
             /\ features.val.round_number_count = count
    /\ (op = "extract_features" /\ raised = "") =>
          ret.round_number_count =
              DivisibleCount(Get(args.filing_data.income, 0).v,
                             Get(args.filing_data.deductions, 0).v)

\* income 50000 and deductions 15000: count 3 and the strong finding
C23_Witness ==
    /\ op = "analyze"
    /\ frame.try_exc = ""
    /\ args.filing_data.income = Num(50000)
    /\ args.filing_data.deductions = Num(15000)
    /\ ret.detailed_analysis.factors_breakdown.round_numbers = 5
    /\ AFD_extract_features(args.filing_data, args.taxpayer_history).val.round_number_count = 3

\* C26: for integer income and deductions the round-number count is never
\* exactly 2 (if two of income, deductions and income - deductions are
\* divisible by 1000, so is the third); the count is 0, 1 or 3, and the strong
\* round-number finding occurs only with count 3.
C26_CountNeverTwo ==
    (op = "analyze" /\ frame.try_exc = "") =>
        LET income == Get(args.filing_data.income, 0).v
            deductions == Get(args.filing_data.deductions, 0).v
            count == round_count(income, deductions, income - deductions)
        IN /\ count \in {0, 1, 3}
           /\ AFD_extract_features(args.filing_data, args.taxpayer_history).val.round_number_count
                \in {0, 1, 3}
           /\ ret.detailed_analysis.factors_breakdown.round_numbers = 5 => count = 3

\* only the difference of income and deductions is a multiple of 1000: count 1
C26_Witness ==
    /\ op = "analyze"
    /\ frame.try_exc = ""
    /\ args.filing_data.income = Num(12300)
    /\ args.filing_data.deductions = Num(7300)
    /\ ret.detailed_analysis.factors_breakdown.round_numbers = 2

-----------------------------------------------------------------------------
(* FraudDetector.analyze: confidence, largest score *)

\* a tax_period on which the filing-timing check fires
EarlyPeriod == <<"Q", "1", "-", "E", "a", "r", "l", "y">>

\* C24: a non-degraded analyze result has
\* confidence = max(0.7, 1 - 0.05 * number of findings); the same filing with
\* one more check firing (the timing check) has no higher confidence; and
\* confidence is 0.0 exactly for the degraded error result.
C24_Confidence ==
    op = "analyze" =>
        /\ frame.try_exc = "" =>
              /\ ret.confidence = Max(70, 100 - 5 * Len(ret.factors))
              /\ args.filing_data.tax_period = <<>> =>
                    LET more == FD_analyze([args.filing_data EXCEPT !.tax_period = EarlyPeriod],
                                           args.taxpayer_history).val
                    IN /\ Len(more.factors) = Len(ret.factors) + 1
                       /\ more.confidence <= ret.confidence
        /\ ret.confidence = 0 <=> frame.try_exc # ""
        /\ ret.confidence = 0 <=> ret = FD_degraded(frame.try_exc)

\* four findings: confidence 0.8
C24_Witness ==
    /\ op = "analyze"
    /\ frame.try_exc = ""
    /\ Len(ret.factors) = 4
    /\ ret.confidence = 80

\* every check at its strongest tier, in tenths
StrongestTiers ==
    [income_deviation |-> 8, deduction_ratio |-> 9, historical_inconsistency |-> 7,
     round_numbers |-> 5, unusual_timing |-> 3]

-----------------------------------------------------------------------------
(* AdvancedFraudDetector.ensemble_predict on a degraded prediction *)

\* C27: whenever predict degraded for the filing, ensemble_predict returns
\* ml_score 0.0, ensemble_score = 0.3 * rule_based_score and
\* final_prediction = false, for every rule_based_score in [0, 1].
C27_DegradedNeverFlags ==
    (op = "ensemble_predict" /\ "error" \in DOMAIN frame.ml_result) =>
        /\ raised = ""
        /\ ret.ml_score = 0
        /\ 10 * ret.ensemble_score = 3 * args.rule_based_score
        /\ ret.final_prediction = FALSE

\* predict degraded and the rule-based score is 1.0: ensemble_score 0.3
C27_Witness ==
    /\ op = "ensemble_predict"
    /\ "error" \in DOMAIN frame.ml_result
    /\ args.rule_based_score = 100000
    /\ ret.ensemble_score = 30000
    /\ ret.final_prediction = FALSE

-----------------------------------------------------------------------------
(* The cached flag of the ensemble endpoint *)

\* C28 (as claimed): a response of OptimizedFraudDetectionAPI.post served from
\* the cache has cached = true and carries the stored scores, and a freshly
\* computed response has cached = false.
C28_CachedFlagClaim ==
    op = "post" =>
        /\ ret.data.cached = frame.cache_hit
        /\ frame.cache_hit =>
              LET stored == get_cached_analysis(cache, args.filing_data).val IN
              /\ ret.data.risk_score = stored.risk_score
              /\ ret.data.risk_level = stored.risk_level

-----------------------------------------------------------------------------
(* Verification of recorded ledger transactions *)

\* C29 (as claimed): a transaction recorded through
\* BlockchainTransactionAPI.post, with its generated hash and status
\* CONFIRMED, is reported valid = true when it is looked up through
\* VerifyTransactionAPI.get by that hash or by its reference_id.
C29_RecordedIsValidClaim ==
    (op = "verify" /\ ret.status = 200) => ret.data.valid = TRUE

-----------------------------------------------------------------------------
(* The message counter of a conversation *)

\* C30 (as claimed): once every request on the conversation has completed,
\* conversation.total_messages equals the number of ChatMessage rows of the
\* conversation, whatever the interleaving of the concurrent requests.
C30_TotalMatchesRowsClaim ==
    (\A t \in Threads : chat.requests[t].pc = "idle")
        => chat.total_messages = Len(chat.messages)

====
